---- MODULE Spec2Model ----
(***************************************************************************)
(* A model of pykafka's client core (kafka/base.py):                       *)
(*   - compute_checksum and BaseKafka._parse_message_set, the message-set  *)
(*     parser, on byte buffers;                                            *)
(*   - BaseKafka._read_response / _read_fetch_response, the decoding of a  *)
(*     response body;                                                      *)
(*   - Partition.poll, the polling generator, one action per blocking      *)
(*     step (a fetch, an offsets lookup, a yield, a sleep).                *)
(* Bytes are the integers 0..255, a byte string is a sequence of bytes.    *)
(* A 32-bit checksum is kept as its four big-endian bytes.                 *)
(***************************************************************************)
EXTENDS Integers, Sequences, FiniteSets, TLC

\* ------------------------------------------------------------------ bounds
\* The number of emissions (yields) of poll a run is followed for.
MaxEmits == 2
\* The number of failed fetch attempts a run is followed for.
MaxFails == 3
\* The number of messages in a message set the server sends.
MaxMsgs == 2

\* --------------------------------------------------------------- constants
\* Python's None. Offsets and limits are unsigned, so -1 is none of them, and
\* Python 2 orders None below every integer, as -1 is.
None == -1

MAGIC_BYTE == 0
ERROR_CODE == 2
MESSAGE_LENGTH == 4
MAGIC == 1
CHECKSUM == 4
MESSAGE_HEADER_SIZE == 9

\* A table without entries: every code is unknown.
error_codes_Empty(error_code) == "UnknownError"

\* error_codes.get(error_code, UnknownError)
error_codes(error_code) ==
    CASE error_code = 1 -> "OffsetOutOfRange"
      [] error_code = 2 -> "InvalidMessageCode"
      [] error_code = 3 -> "WrongPartitionCode"
      [] error_code = 4 -> "InvalidRetchSizeCode"
      [] OTHER -> "UnknownError"

\* ------------------------------------------------------------------ CRC32
\* binascii.crc32: the reflected CRC-32 (polynomial EDB88320, initial value
\* and final complement FFFFFFFF), on a word kept as 32 bits, bit 1 the
\* least significant.
Bit(n, i) == (n \div (2 ^ (i - 1))) % 2

XorBits(a, b) == [i \in 1..32 |-> (a[i] + b[i]) % 2]

Poly == [i \in 1..32 |-> IF i \in {6, 9, 10, 16, 20, 21, 22, 24, 25, 27, 28, 30, 31, 32} THEN 1 ELSE 0]

Ones == [i \in 1..32 |-> 1]

ShiftRight1(w) == [i \in 1..32 |-> IF i = 32 THEN 0 ELSE w[i + 1]]

RECURSIVE CrcRounds(_, _)
CrcRounds(w, k) ==
    IF k = 0 THEN w
    ELSE CrcRounds(IF w[1] = 1 THEN XorBits(ShiftRight1(w), Poly) ELSE ShiftRight1(w), k - 1)

\* The table of the byte-wise CRC: the eight rounds of every byte value.
CrcTable == [b \in 0..255 |-> CrcRounds([i \in 1..32 |-> IF i <= 8 THEN Bit(b, i) ELSE 0], 8)]

ShiftRight8(w) == [i \in 1..32 |-> IF i > 24 THEN 0 ELSE w[i + 8]]

\* crc = table[(crc ^ byte) & 0xFF] ^ (crc >> 8)
CrcByte(w, byte) ==
    LET x == [i \in 1..8 |-> (w[i] + Bit(byte, i)) % 2]
        index == x[1] + 2 * x[2] + 4 * x[3] + 8 * x[4] + 16 * x[5] + 32 * x[6]
                 + 64 * x[7] + 128 * x[8]
    IN  XorBits(ShiftRight8(w), CrcTable[index])

RECURSIVE CrcFold(_, _, _)
CrcFold(w, value, i) ==
    IF i > Len(value) THEN w ELSE CrcFold(CrcByte(w, value[i]), value, i + 1)

ByteOf(w, lo) ==
    w[lo] + 2 * w[lo + 1] + 4 * w[lo + 2] + 8 * w[lo + 3] + 16 * w[lo + 4]
    + 32 * w[lo + 5] + 64 * w[lo + 6] + 128 * w[lo + 7]

\* compute_checksum(value), as the four bytes struct.pack('>i', .) gives it.
compute_checksum(value) ==
    LET w == XorBits(CrcFold(Ones, value, 1), Ones)
    IN  <<ByteOf(w, 25), ByteOf(w, 17), ByteOf(w, 9), ByteOf(w, 1)>>

\* ----------------------------------------------------------- wire encoding
\* struct.pack('>i', n) / struct.pack('>I', n) of a number below 2^31.
Pack32(n) == <<n \div 16777216, (n \div 65536) % 256, (n \div 256) % 256, n % 256>>

\* struct.unpack('>I', raw)[0]. The buffers of this model keep the first
\* length byte below 128, so the value stays below 2^31.
Unpack32(raw) == ((raw[1] * 256 + raw[2]) * 256 + raw[3]) * 256 + raw[4]

\* The checksum taken of the empty string instead of the message.
EncodeMessage_ChecksumOfNothing(message) ==
    LET encoded_message == <<MAGIC_BYTE>> \o compute_checksum(<<>>) \o message
    IN  Pack32(Len(encoded_message)) \o encoded_message

\* One entry of a message set as _produce_request writes it:
\* msgLen(4) = 5 + len(message), magic, checksum, message.
EncodeMessage(message) ==
    LET encoded_message == <<MAGIC_BYTE>> \o compute_checksum(message) \o message
    IN  Pack32(Len(encoded_message)) \o encoded_message

RECURSIVE EncodeMessageSet(_)
EncodeMessageSet(messages) ==
    IF messages = <<>> THEN <<>>
    ELSE EncodeMessage(Head(messages)) \o EncodeMessageSet(Tail(messages))

\* ------------------------------------------------------ message-set parser
\* message_buffer.read(n) at position pos (bytes already consumed): at most
\* n bytes, and all that is left when n is negative.
Read(buf, pos, n) ==
    LET avail == IF Len(buf) > pos THEN Len(buf) - pos ELSE 0
        k == IF n < 0 \/ n > avail THEN avail ELSE n
    IN  SubSeq(buf, pos + 1, pos + k)

\* The corruption flag of one message.
IsCorrupt(magic, raw_checksum, payload) ==
    IF magic # MAGIC_BYTE THEN TRUE
    ELSE IF raw_checksum # compute_checksum(payload) THEN TRUE
    ELSE FALSE

\* The record one iteration yields.
YieldRecord(include_corrupt, offset, payload, corrupt) ==
    IF include_corrupt THEN <<offset, payload, corrupt>> ELSE <<offset, payload>>

\* The loop stops at every payload, cut off or not.
ShortPayloadBreak_Always(payload, payload_length, self_include_corrupt) == TRUE

\* Whether the iteration stops at a payload cut off by the end of the buffer.
ShortPayloadBreak(payload, payload_length, self_include_corrupt) ==
    Len(payload) < payload_length /\ ~self_include_corrupt

\* The offset counted from the start of the body, the two bytes of the error
\* code included.
MessageOffset_OfBody(start_offset, tell) == start_offset + tell

\* offset = start_offset + message_buffer.tell() - Lengths.ERROR_CODE
MessageOffset(start_offset, tell) == start_offset + tell - ERROR_CODE

\* One iteration of the while loop of _parse_message_set with the buffer at
\* position pos: more = FALSE when the loop breaks, else the record yielded
\* and the position after the payload.
ParseIteration(start_offset, buf, pos, include_corrupt, self_include_corrupt) ==
    LET offset == MessageOffset(start_offset, pos)
        raw_message_length == Read(buf, pos, MESSAGE_LENGTH)
        pos1 == pos + Len(raw_message_length)
        raw_magic == Read(buf, pos1, MAGIC)
        pos2 == pos1 + Len(raw_magic)
        raw_checksum == Read(buf, pos2, CHECKSUM)
        pos3 == pos2 + Len(raw_checksum)
        message_length == Unpack32(raw_message_length)
        payload_length == message_length - MAGIC - CHECKSUM
        payload == Read(buf, pos3, payload_length)
        pos4 == pos3 + Len(payload)
        corrupt == IsCorrupt(raw_magic[1], raw_checksum, payload)
    IN  IF Len(raw_message_length) < MESSAGE_LENGTH
        THEN [more |-> FALSE, yield |-> <<>>, pos |-> pos1]
        ELSE IF Len(raw_magic) < MAGIC
        THEN [more |-> FALSE, yield |-> <<>>, pos |-> pos2]
        ELSE IF Len(raw_checksum) < CHECKSUM
        THEN [more |-> FALSE, yield |-> <<>>, pos |-> pos3]
        ELSE IF ShortPayloadBreak(payload, payload_length, self_include_corrupt)
        THEN [more |-> FALSE, yield |-> <<>>, pos |-> pos4]
        ELSE [more |-> TRUE,
              yield |-> <<YieldRecord(include_corrupt, offset, payload, corrupt)>>,
              pos |-> pos4]

\* list(self._parse_message_set(start_offset, message_buffer, include_corrupt))
\* with the buffer at position pos.
RECURSIVE _parse_message_set(_, _, _, _, _)
_parse_message_set(start_offset, buf, pos, include_corrupt, self_include_corrupt) ==
    LET it == ParseIteration(start_offset, buf, pos, include_corrupt, self_include_corrupt)
    IN  IF it.more
        THEN it.yield \o _parse_message_set(start_offset, buf, it.pos, include_corrupt,
                                            self_include_corrupt)
        ELSE <<>>

\* _read_response: the error kind the envelope's error code raises, "none"
\* for code 0.
_read_response(data) ==
    LET raw_error_code == Read(data, 0, ERROR_CODE)
        error_code == raw_error_code[1] * 256 + raw_error_code[2]
    IN  IF error_code # 0 THEN error_codes(error_code) ELSE "none"

\* _read_response then _read_fetch_response (callback None) on a response
\* body: the error raised, or the list of records.
DecodeFetch(start_offset, include_corrupt, self_include_corrupt, data) ==
    IF _read_response(data) # "none"
    THEN [error |-> _read_response(data), messages |-> <<>>]
    ELSE [error |-> "none",
          messages |-> _parse_message_set(start_offset, data, ERROR_CODE, include_corrupt,
                                          self_include_corrupt)]

\* ------------------------------------------------------------- the server
\* A message-set entry with the given magic byte and stored checksum.
WireMessage(magic, raw_checksum, payload) ==
    Pack32(MAGIC + CHECKSUM + Len(payload)) \o <<magic>> \o raw_checksum \o payload

RECURSIVE Concat(_)
Concat(seqs) == IF seqs = <<>> THEN <<>> ELSE Head(seqs) \o Concat(Tail(seqs))

\* The number of bytes max_size may cut off the end of a message set: none,
\* one byte of the last payload, into the last header.
Cuts == {0, 1, 6}

CutEnd(buf, c) == IF Len(buf) >= c THEN SubSeq(buf, 1, Len(buf) - c) ELSE buf

\* The message sets of at most MaxMsgs of the given entries, cut at the end.
MessageSetsOf(entries) ==
    {CutEnd(Concat(ms), c) : ms \in UNION {[1..n -> entries] : n \in 0..MaxMsgs},
                             c \in Cuts}

\* What the broker answers a fetch of poll with: the payload "bc", well
\* formed or with the checksum of another payload.
PollWireMessages ==
    {EncodeMessage(<<98, 99>>), WireMessage(MAGIC_BYTE, compute_checksum(<<97>>), <<98, 99>>)}

\* Response bodies: errorCode(2) + body.
OkBodies == {<<0, 0>> \o ms : ms \in MessageSetsOf(PollWireMessages)}

\* The error answers a run of poll is followed for: the four codes of
\* error_codes and one code outside it.
PollErrorBodies == {<<0, error_code>> : error_code \in 1..5}

\* --------------------------------------------------------- Partition.poll
VARIABLES
    kafka_include_corrupt,  \* self._kafka.include_corrupt
    arg_offset,             \* the arguments of poll
    end_offset,
    poll_interval,
    include_corrupt,
    retry_limit,
    pc,                     \* where the generator stands
    error,                  \* the exception poll raised, "none" if none
    raised_at,              \* the step that raised it
    offset,                 \* the locals of poll
    first_loop,
    start_offset,
    last_offset_read,
    messages_read,
    bytes_read,
    num_fetches,
    seconds_slept,
    retry_attempts,
    msg_batch,
    messages,
    earliest,               \* the values of the offsets lookups of the loop
    latest,
    recheck,                \* what the repeated fetch of the validation returned
    lookup_calls,           \* history: the offsets lookups made and how they ended
    emitted,                \* history: what poll yielded, in order
    fetched_at,             \* history: the offset of every fetch issued
    fetch_ok,               \* history: how many fetches of the loop returned a list
    fails,                  \* history: connection failures of fetches so far
    fail_run,               \* history: connection failures since the last success
    max_fail_run,           \* history: the longest such run
    slept,                  \* history: the seconds passed in time.sleep
    dropped,                \* history: messages the end_offset filter dropped
    f_data,                 \* one fetch call: the response body read
    f_start_offset,         \*   the offset fetched at
    f_include_corrupt,      \*   the include_corrupt argument of fetch
    f_pc,                   \*   where the call stands
    f_pos,                  \*   message_buffer.tell()
    f_messages,             \*   the records yielded so far
    f_error,                \*   the exception the call raised, "none" if none
    f_closed,               \*   whether message_buffer has been closed
    c_pc,                   \* calls of fetch and offsets: where the call stands
    c_kind,                 \*   "fetch" or "offsets"
    c_offset,               \*   the offset argument of fetch
    c_callback,             \*   whether the caller gave a callback
    c_call,                 \*   the number of the call, counted from 1
    c_trace,                \*   history: what the connection and the decoders saw
    c_raw_size,             \*   the four bytes of the response size
    c_data,                 \*   the response body
    c_error,                \*   the exception the call raised, "none" if none
    c_result,               \*   what the call returned
    w_pc,                   \* one call of Kafka._write: where it stands
    w_socket,               \*   self._socket: "none" or "open"
    w_len,                  \*   len(data)
    w_callback,             \*   whether a callback was given
    w_retries,              \*   the retries argument
    w_wrote,                \*   wrote_length
    w_error,                \*   the exception the call raised, "none" if none
    w_sends,                \*   history: the outcome of every socket.send
    w_reconnects,           \*   history: calls of _reconnect
    w_continued,            \*   history: calls of the continuation
    r_pc,                   \* Kafka._read: where the call stands
    r_socket,               \*   self._socket: "none" or "open"
    r_length,               \*   the length argument
    r_read_length,          \*   read_length
    r_read_data,            \*   read_data
    r_overflow,             \*   self._overflow
    r_total_read,           \*   self.total_read
    r_error,                \*   the exception the call raised, "none" if none
    r_calls,                \*   history: how many calls were made
    r_received,             \*   history: how many bytes of the stream recv has handed out
    r_returned,             \*   history: the value of every call that returned
    r_dropped               \*   history: bytes received by calls that raised

args == <<kafka_include_corrupt, arg_offset, end_offset, poll_interval, include_corrupt,
          retry_limit>>

control == <<pc, error, raised_at>>

counters == <<messages_read, bytes_read, num_fetches, last_offset_read>>

lookups == <<earliest, latest, recheck, lookup_calls>>

locals == <<offset, first_loop, start_offset, counters, seconds_slept, retry_attempts,
            msg_batch, messages, lookups>>

failures == <<fails, fail_run, max_fail_run>>

history == <<emitted, fetched_at, fetch_ok, failures, slept, dropped>>

poll_vars == <<arg_offset, end_offset, poll_interval, include_corrupt, retry_limit, control,
               locals, history>>

fetch_vars == <<f_data, f_start_offset, f_include_corrupt, f_pc, f_pos, f_messages, f_error,
                f_closed>>

call_vars == <<c_pc, c_kind, c_offset, c_callback, c_call, c_trace, c_raw_size, c_data,
               c_error, c_result>>

write_vars == <<w_pc, w_socket, w_len, w_callback, w_retries, w_wrote, w_error, w_sends,
                w_reconnects, w_continued>>

read_vars == <<r_pc, r_socket, r_length, r_read_length, r_read_data, r_overflow, r_total_read,
               r_error, r_calls, r_received, r_returned, r_dropped>>

io_vars == <<call_vars, write_vars, read_vars>>

vars == <<kafka_include_corrupt, poll_vars, fetch_vars, io_vars>>

\* The offsets poll is called with, and the offsets an offsets lookup answers.
StartOffsets == {11, 22}
EndOffsets == {11}
LookupOffsets == {11, 30}
PollIntervals == {0, 2}
RetryLimits == {None, 0, 1}

\* No fetch call of its own is followed beside poll.
NoFetchCall ==
    /\ f_data = <<>>
    /\ f_start_offset = 0
    /\ f_include_corrupt = FALSE
    /\ f_pc = "idle"
    /\ f_pos = 0
    /\ f_messages = <<>>
    /\ f_error = "none"
    /\ f_closed = FALSE

\* No call of fetch or offsets is followed step by step.
NoCall ==
    /\ c_pc = "idle"
    /\ c_kind = "none"
    /\ c_offset = 0
    /\ c_callback = FALSE
    /\ c_call = 0
    /\ c_trace = <<>>
    /\ c_raw_size = <<>>
    /\ c_data = <<>>
    /\ c_error = "none"
    /\ c_result = <<>>

\* No call of Kafka._write is followed step by step.
NoWrite ==
    /\ w_pc = "idle"
    /\ w_socket = "none"
    /\ w_len = 0
    /\ w_callback = FALSE
    /\ w_retries = 0
    /\ w_wrote = 0
    /\ w_error = "none"
    /\ w_sends = <<>>
    /\ w_reconnects = 0
    /\ w_continued = 0

\* No call of Kafka._read is followed step by step.
NoRead ==
    /\ r_pc = "idle"
    /\ r_socket = "none"
    /\ r_length = 0
    /\ r_read_length = 0
    /\ r_read_data = <<>>
    /\ r_overflow = <<>>
    /\ r_total_read = 0
    /\ r_error = "none"
    /\ r_calls = 0
    /\ r_received = 0
    /\ r_returned = <<>>
    /\ r_dropped = 0

\* poll is called with its arguments; nothing of its body has run.
PollCalled ==
    /\ pc = "called"
    /\ error = "none"
    /\ raised_at = "none"
    /\ offset = arg_offset
    /\ first_loop = TRUE
    /\ start_offset = None
    /\ last_offset_read = None
    /\ messages_read = 0
    /\ bytes_read = 0
    /\ num_fetches = 0
    /\ seconds_slept = 0
    /\ retry_attempts = 0
    /\ msg_batch = <<>>
    /\ messages = <<>>
    /\ earliest = None
    /\ latest = None
    /\ recheck = "none"
    /\ lookup_calls = <<>>
    /\ emitted = <<>>
    /\ fetched_at = <<>>
    /\ fetch_ok = 0
    /\ fails = 0
    /\ fail_run = 0
    /\ max_fail_run = 0
    /\ slept = 0
    /\ dropped = 0

Init ==
    /\ kafka_include_corrupt \in BOOLEAN
    /\ arg_offset \in StartOffsets \cup {None}
    /\ end_offset \in EndOffsets \cup {None}
    /\ poll_interval \in PollIntervals
    /\ include_corrupt \in BOOLEAN
    /\ retry_limit \in RetryLimits
    /\ PollCalled
    /\ NoFetchCall
    /\ NoCall
    /\ NoWrite
    /\ NoRead

\* What an offsets lookup (earliest_offset, latest_offset) may raise.
LookupFailures == {"ConnectionFailure"}

\* What an offsets lookup ends with: the offset, or the error it raises.
LookupOutcomes ==
    {[error |-> "none", value |-> v] : v \in LookupOffsets}
    \cup {[error |-> f, value |-> None] : f \in LookupFailures}

\* start_offset = self.latest_offset() if offset is None else offset
InitialStartOffset(offset_arg, latest_value) ==
    IF offset_arg = None THEN latest_value ELSE offset_arg

\* if end_offset is not None and offset > end_offset: break
PastEnd(end, cursor) == end # None /\ cursor > end

\* if retry_limit is not None and retry_attempts > retry_limit: raise
RetryExhausted(limit, attempts) == limit # None /\ attempts > limit

\* "for msg_offset, msg in msg_batch" raises ValueError on a record that is
\* no pair.
UnpackFails(batch) == \E i \in 1..Len(batch) : Len(batch[i]) # 2

\* The filter compares against the end of the message, not its offset.
FilterEnd_ByMessageEnd(end, batch) ==
    SelectSeq(batch, LAMBDA m : m[1] <= end + Len(m[2]) + MESSAGE_HEADER_SIZE)

\* [(msg_offset, msg) for msg_offset, msg in msg_batch if msg_offset <= end_offset]
FilterEnd(end, batch) == SelectSeq(batch, LAMBDA m : m[1] <= end)

\* The lower bound taken strictly.
NotBeforeEarliest_Strict(earliest_value, cursor) == earliest_value < cursor

\* self.earliest_offset() <= offset < self.latest_offset(), in two steps:
\* the chained comparison calls latest_offset only if the first part holds.
NotBeforeEarliest(earliest_value, cursor) == earliest_value <= cursor

BeforeLatest(cursor, latest_value) == cursor < latest_value

\* The cursor advanced by the payload only, the header forgotten.
NextOffset_NoHeader(batch) ==
    LET last == batch[Len(batch)]
    IN  last[1] + Len(last[2])

\* offset = last_offset_read + len(last_message_read) + MESSAGE_HEADER_SIZE
NextOffset(batch) ==
    LET last == batch[Len(batch)]
    IN  last[1] + Len(last[2]) + MESSAGE_HEADER_SIZE

\* The bytes of the messages with their headers.
RECURSIVE SumLen_WithHeaders(_)
SumLen_WithHeaders(msgs) ==
    IF msgs = <<>> THEN 0
    ELSE MESSAGE_HEADER_SIZE + Len(Head(msgs)) + SumLen_WithHeaders(Tail(msgs))

\* sum(len(msg) for msg in messages)
RECURSIVE SumLen(_)
SumLen(msgs) == IF msgs = <<>> THEN 0 ELSE Len(Head(msgs)) + SumLen(Tail(msgs))

\* if poll_interval and not messages
IdleSleep(interval, msgs) == interval # 0 /\ msgs = <<>>

Max(a, b) == IF a >= b THEN a ELSE b

\* A run is followed until it has yielded MaxEmits times.
Followed == Len(emitted) < MaxEmits

\* One entry of the history of the lookups: which one, the error it raised
\* and the offset it returned.
Lookup(which, outcome) ==
    [which |-> which, error |-> outcome.error, value |-> outcome.value]

\* The error poll raises whatever the lookups did.
OutOfRangeError_LookupsIgnored(e, l) == "OffsetOutOfRange"

\* What the handler of lines 530-539 raises: the arguments of the message
\* are evaluated first, so a lookup that fails raises instead.
OutOfRangeError(e, l) ==
    IF e.error # "none" THEN e.error
    ELSE IF l.error # "none" THEN l.error
    ELSE "OffsetOutOfRange"

\* The lookups the handler makes: latest_offset() only if earliest_offset()
\* returned.
OutOfRangeLookups(e, l) ==
    <<Lookup("earliest", e)>> \o (IF e.error = "none" THEN <<Lookup("latest", l)>> ELSE <<>>)

\* The first resumption of the generator: lines 491-512.
PollStart ==
    /\ pc = "called"
    /\ \E l \in LookupOutcomes :
         /\ IF arg_offset = None /\ l.error # "none"
            THEN /\ pc' = "raised"
                 /\ error' = l.error
                 /\ raised_at' = "start"
                 /\ UNCHANGED start_offset
            ELSE /\ pc' = "loop"
                 /\ start_offset' = InitialStartOffset(arg_offset, l.value)
                 /\ UNCHANGED <<error, raised_at>>
         /\ lookup_calls' = IF arg_offset = None
                            THEN Append(lookup_calls, Lookup("latest", l))
                            ELSE lookup_calls
    /\ UNCHANGED <<io_vars, fetch_vars, args, offset, first_loop, counters, seconds_slept,
                   retry_attempts, msg_batch, messages, earliest, latest, recheck, history>>

\* The loop ends before the next fetch.
PollDone ==
    /\ pc = "loop"
    /\ PastEnd(end_offset, offset)
    /\ pc' = "done"
    /\ UNCHANGED <<io_vars, fetch_vars, args, error, raised_at, locals, history>>

\* fetch_messages(None): _fetch_request packs the offset with
\* struct.pack('>...Q...'), which raises struct.error on None before anything
\* is written.
FetchNoOffset ==
    /\ pc = "loop"
    /\ ~PastEnd(end_offset, offset)
    /\ offset = None
    /\ pc' = "raised"
    /\ error' = "struct.error"
    /\ raised_at' = "fetch"
    /\ fetched_at' = Append(fetched_at, offset)
    /\ UNCHANGED <<io_vars, fetch_vars, args, locals, emitted, fetch_ok, failures, slept, dropped>>

\* No batch is validated.
NeedsValidation_Never(first, batch) == FALSE

\* if first_loop and not msg_batch
NeedsValidation(first, batch) == first /\ batch = <<>>

\* A fetch of the loop that returns a list: lines 517-518, the end_offset
\* filter of lines 542-544 and the test of line 552.
FetchOk ==
    /\ pc = "loop"
    /\ ~PastEnd(end_offset, offset)
    /\ offset # None
    /\ Followed
    /\ \E data \in OkBodies :
         LET fetched == DecodeFetch(offset, include_corrupt, kafka_include_corrupt,
                                    data).messages
             kept == IF end_offset # None THEN FilterEnd(end_offset, fetched) ELSE fetched
         IN  IF end_offset # None /\ UnpackFails(fetched)
             THEN /\ pc' = "raised"
                  /\ error' = "ValueError"
                  /\ raised_at' = "filter"
                  /\ msg_batch' = fetched
                  /\ UNCHANGED dropped
             ELSE /\ pc' = IF NeedsValidation(first_loop, kept) THEN "validate_earliest"
                           ELSE "process"
                  /\ msg_batch' = kept
                  /\ dropped' = dropped + (Len(fetched) - Len(kept))
                  /\ UNCHANGED <<error, raised_at>>
    /\ retry_attempts' = 0
    /\ fetched_at' = Append(fetched_at, offset)
    /\ fetch_ok' = fetch_ok + 1
    /\ fail_run' = 0
    /\ UNCHANGED <<io_vars, fetch_vars, args, offset, first_loop, start_offset, counters,
                   seconds_slept, messages, lookups, emitted, fails, max_fail_run, slept>>

\* A fetch of the loop answered with a non-zero error code. OffsetOutOfRange
\* is raised again with the two offsets looked up (lines 530-539); a lookup
\* that fails raises instead.
FetchError ==
    /\ pc = "loop"
    /\ ~PastEnd(end_offset, offset)
    /\ offset # None
    /\ Followed
    /\ \E data \in PollErrorBodies, e \in LookupOutcomes, l \in LookupOutcomes :
         IF _read_response(data) = "OffsetOutOfRange"
         THEN /\ error' = OutOfRangeError(e, l)
              /\ earliest' = IF e.error # "none" THEN earliest ELSE e.value
              /\ latest' = IF e.error # "none" \/ l.error # "none" THEN latest ELSE l.value
              /\ lookup_calls' = lookup_calls \o OutOfRangeLookups(e, l)
         ELSE /\ error' = _read_response(data)
              /\ UNCHANGED <<earliest, latest, lookup_calls>>
    /\ pc' = "raised"
    /\ raised_at' = "fetch_error"
    /\ fetched_at' = Append(fetched_at, offset)
    /\ UNCHANGED <<io_vars, fetch_vars, args, offset, first_loop, start_offset, counters,
                   seconds_slept, retry_attempts, msg_batch, messages, recheck, emitted,
                   fetch_ok, failures, slept, dropped>>

\* A fetch of the loop that raises ConnectionFailure or IOError: lines 519-529.
FetchConnFail ==
    /\ pc = "loop"
    /\ ~PastEnd(end_offset, offset)
    /\ offset # None
    /\ Followed
    /\ fails < MaxFails
    /\ fetched_at' = Append(fetched_at, offset)
    /\ fails' = fails + 1
    /\ fail_run' = fail_run + 1
    /\ max_fail_run' = Max(max_fail_run, fail_run + 1)
    /\ IF RetryExhausted(retry_limit, retry_attempts)
       THEN /\ pc' = "raised"
            /\ error' = "ConnectionFailure"
            /\ raised_at' = "fetch"
            /\ UNCHANGED <<retry_attempts, slept>>
       ELSE /\ slept' = slept + poll_interval
            /\ retry_attempts' = retry_attempts + 1
            /\ UNCHANGED control
    /\ UNCHANGED <<io_vars, fetch_vars, args, offset, first_loop, start_offset, counters,
                   seconds_slept, msg_batch, messages, lookups, emitted, fetch_ok, dropped>>

\* The first-loop validation of lines 552-559, one action per call it makes.
\* None of the three calls stands in the try block of the loop.
ValidateEarliest ==
    /\ pc = "validate_earliest"
    /\ \E e \in LookupOutcomes :
         /\ lookup_calls' = Append(lookup_calls, Lookup("earliest", e))
         /\ IF e.error # "none"
            THEN /\ pc' = "raised"
                 /\ error' = e.error
                 /\ raised_at' = "validate_earliest"
                 /\ UNCHANGED earliest
            ELSE /\ earliest' = e.value
                 /\ pc' = IF NotBeforeEarliest(e.value, offset) THEN "validate_latest"
                          ELSE "process"
                 /\ UNCHANGED <<error, raised_at>>
    /\ UNCHANGED <<io_vars, fetch_vars, args, offset, first_loop, start_offset, counters,
                   seconds_slept, retry_attempts, msg_batch, messages, latest, recheck,
                   history>>

ValidateLatest ==
    /\ pc = "validate_latest"
    /\ \E l \in LookupOutcomes :
         /\ lookup_calls' = Append(lookup_calls, Lookup("latest", l))
         /\ IF l.error # "none"
            THEN /\ pc' = "raised"
                 /\ error' = l.error
                 /\ raised_at' = "validate_latest"
                 /\ UNCHANGED latest
            ELSE /\ latest' = l.value
                 /\ pc' = IF BeforeLatest(offset, l.value) THEN "validate_fetch" ELSE "process"
                 /\ UNCHANGED <<error, raised_at>>
    /\ UNCHANGED <<io_vars, fetch_vars, args, offset, first_loop, start_offset, counters,
                   seconds_slept, retry_attempts, msg_batch, messages, earliest, recheck,
                   history>>

\* "not fetch_messages(offset)" of line 558: the repeated fetch.
ValidateFetch ==
    /\ pc = "validate_fetch"
    /\ fetched_at' = Append(fetched_at, offset)
    /\ \/ \E data \in OkBodies :
            /\ IF DecodeFetch(offset, include_corrupt, kafka_include_corrupt,
                              data).messages = <<>>
               THEN /\ recheck' = "empty"
                    /\ pc' = "raised"
                    /\ error' = "InvalidOffset"
                    /\ raised_at' = "validate_fetch"
               ELSE /\ recheck' = "messages"
                    /\ pc' = "process"
                    /\ UNCHANGED <<error, raised_at>>
            /\ fail_run' = 0
            /\ UNCHANGED <<fails, max_fail_run>>
       \/ \E data \in PollErrorBodies :
            /\ pc' = "raised"
            /\ error' = _read_response(data)
            /\ raised_at' = "validate_fetch"
            /\ UNCHANGED <<recheck, failures>>
       \/ /\ fails < MaxFails
          /\ pc' = "raised"
          /\ error' = "ConnectionFailure"
          /\ raised_at' = "validate_fetch"
          /\ fails' = fails + 1
          /\ fail_run' = fail_run + 1
          /\ max_fail_run' = Max(max_fail_run, fail_run + 1)
          /\ UNCHANGED recheck
    /\ UNCHANGED <<io_vars, fetch_vars, args, offset, first_loop, start_offset, counters,
                   seconds_slept, retry_attempts, msg_batch, messages, earliest, latest,
                   lookup_calls,                    emitted, fetch_ok, slept, dropped>>

\* The status of lines 573-580 (polling_start_time, a time stamp taken once,
\* is left out).
PollingStatus(start, next, last, n_messages, n_bytes, n_fetches, n_slept) ==
    [start_offset |-> start,
     next_offset |-> next,
     last_offset_read |-> last,
     messages_read |-> n_messages,
     bytes_read |-> n_bytes,
     num_fetches |-> n_fetches,
     seconds_slept |-> n_slept]

\* Only a batch that holds messages is handed to the consumer.
Yielded_NonEmptyOnly(pairs, pair) ==
    IF pair.messages = <<>> THEN pairs ELSE Append(pairs, pair)

\* "yield status, messages": the pair joins what the consumer has received.
Yielded(pairs, pair) == Append(pairs, pair)

\* Lines 560-582: the counters, the cursor, the status, the yield.
Emit ==
    /\ pc = "process"
    /\ first_loop' = FALSE
    /\ IF UnpackFails(msg_batch)
       THEN /\ pc' = "raised"
            /\ error' = "ValueError"
            /\ raised_at' = "process"
            /\ UNCHANGED <<offset, counters, messages, emitted>>
       ELSE LET msgs == [i \in 1..Len(msg_batch) |-> msg_batch[i][2]]
                cursor == IF msg_batch # <<>> THEN NextOffset(msg_batch) ELSE offset
                last == IF msg_batch # <<>> THEN msg_batch[Len(msg_batch)][1]
                        ELSE last_offset_read
            IN  /\ messages' = msgs
                /\ messages_read' = messages_read + Len(msgs)
                /\ bytes_read' = bytes_read + SumLen(msgs)
                /\ num_fetches' = num_fetches + 1
                /\ last_offset_read' = last
                /\ offset' = cursor
                /\ emitted' = Yielded(emitted,
                      [status |-> PollingStatus(start_offset, cursor, last,
                                                messages_read + Len(msgs),
                                                bytes_read + SumLen(msgs),
                                                num_fetches + 1, seconds_slept),
                       messages |-> msgs,
                       offsets |-> [i \in 1..Len(msg_batch) |-> msg_batch[i][1]],
                       slept |-> slept])
                /\ pc' = "yielded"
                /\ UNCHANGED <<error, raised_at>>
    /\ UNCHANGED <<io_vars, fetch_vars, args, start_offset, seconds_slept, retry_attempts, msg_batch,
                   lookups, fetched_at, fetch_ok, failures, slept, dropped>>

\* The consumer asks for the next pair: lines 586-588, then the loop again.
Resume ==
    /\ pc = "yielded"
    /\ IF IdleSleep(poll_interval, messages)
       THEN /\ seconds_slept' = seconds_slept + poll_interval
            /\ slept' = slept + poll_interval
       ELSE UNCHANGED <<seconds_slept, slept>>
    /\ pc' = "loop"
    /\ UNCHANGED <<io_vars, fetch_vars, args, error, raised_at, offset, first_loop, start_offset,
                   counters, retry_attempts, msg_batch, messages, lookups, emitted,
                   fetched_at, fetch_ok, failures, dropped>>

Next ==
    \/ PollStart
    \/ PollDone
    \/ FetchNoOffset
    \/ FetchOk
    \/ FetchError
    \/ FetchConnFail
    \/ ValidateEarliest
    \/ ValidateLatest
    \/ ValidateFetch
    \/ Emit
    \/ Resume

Spec == Init /\ [][Next]_vars

\* ---------------------------------------------------- one fetch call alone
\* The decoding of the response of one call of fetch (callback None), the
\* parser's loop one iteration at a time.
\* The entries of the message sets: the payloads "a" and "bc" well formed,
\* "a" with a wrong magic byte, "bc" with the checksum of "a".
FetchWireMessages ==
    {EncodeMessage(<<97>>), EncodeMessage(<<98, 99>>),
     WireMessage(1, compute_checksum(<<97>>), <<97>>),
     WireMessage(MAGIC_BYTE, compute_checksum(<<97>>), <<98, 99>>)}

ErrorBodies == {<<0, c>> : c \in 1..5}

FetchBodies == {<<0, 0>> \o ms : ms \in MessageSetsOf(FetchWireMessages)} \cup ErrorBodies

FetchOffsets == {0, 100}

FetchInit ==
    /\ kafka_include_corrupt \in BOOLEAN
    /\ arg_offset = None
    /\ end_offset = None
    /\ poll_interval = 0
    /\ include_corrupt = FALSE
    /\ retry_limit = None
    /\ PollCalled
    /\ NoCall
    /\ NoWrite
    /\ NoRead
    /\ f_data \in FetchBodies
    /\ f_start_offset \in FetchOffsets
    /\ f_include_corrupt \in BOOLEAN
    /\ f_pc = "response"
    /\ f_pos = 0
    /\ f_messages = <<>>
    /\ f_error = "none"
    /\ f_closed = FALSE

\* _read_response: the error code is read and checked; on 0 the buffer goes
\* on to _read_fetch_response, two bytes consumed.
ReadResponse ==
    /\ f_pc = "response"
    /\ IF _read_response(f_data) # "none"
       THEN /\ f_pc' = "raised"
            /\ f_error' = _read_response(f_data)
            /\ UNCHANGED f_pos
       ELSE /\ f_pc' = "parsing"
            /\ f_pos' = ERROR_CODE
            /\ UNCHANGED f_error
    /\ UNCHANGED <<io_vars, kafka_include_corrupt, poll_vars, f_data, f_start_offset,
                   f_include_corrupt, f_messages, f_closed>>

\* An iteration of the parser's loop that yields a record.
ParseYield ==
    /\ f_pc = "parsing"
    /\ LET it == ParseIteration(f_start_offset, f_data, f_pos, f_include_corrupt,
                                kafka_include_corrupt)
       IN  /\ it.more
           /\ f_messages' = f_messages \o it.yield
           /\ f_pos' = it.pos
    /\ UNCHANGED <<io_vars, kafka_include_corrupt, poll_vars, f_data, f_start_offset,
                   f_include_corrupt, f_pc, f_error, f_closed>>

\* The buffer is left as it is.
Finally_NotClosed(closed) == closed

\* finally: message_buffer.close()
Finally(closed) == TRUE

\* The iteration that breaks: the buffer is closed and fetch returns the list.
ParseEnd ==
    /\ f_pc = "parsing"
    /\ LET it == ParseIteration(f_start_offset, f_data, f_pos, f_include_corrupt,
                                kafka_include_corrupt)
       IN  /\ ~it.more
           /\ f_pos' = it.pos
    /\ f_closed' = Finally(f_closed)
    /\ f_pc' = "returned"
    /\ UNCHANGED <<io_vars, kafka_include_corrupt, poll_vars, f_data, f_start_offset,
                   f_include_corrupt, f_messages, f_error>>

FetchNext ==
    \/ ReadResponse
    \/ ParseYield
    \/ ParseEnd

SpecFetch == FetchInit /\ [][FetchNext]_vars

\* --------------------------------------------- the parser on any buffer
\* Entries whose length field does not fit what follows it: a declared
\* length below the 5 bytes of magic and checksum, and one beyond any buffer.
MalformedLengths == {0, 4, 200}

MalformedMessages ==
    {Pack32(declared) \o <<MAGIC_BYTE>> \o compute_checksum(<<97>>) \o <<97>> :
        declared \in MalformedLengths}

\* Response bodies a broker would not send, beside those it does.
ParseBodies ==
    {<<0, 0>> \o ms : ms \in MessageSetsOf(FetchWireMessages \cup MalformedMessages)}

ParseInit ==
    /\ kafka_include_corrupt \in BOOLEAN
    /\ arg_offset = None
    /\ end_offset = None
    /\ poll_interval = 0
    /\ include_corrupt = FALSE
    /\ retry_limit = None
    /\ PollCalled
    /\ NoCall
    /\ NoWrite
    /\ NoRead
    /\ f_data \in ParseBodies
    /\ f_start_offset \in FetchOffsets
    /\ f_include_corrupt \in BOOLEAN
    /\ f_pc = "response"
    /\ f_pos = 0
    /\ f_messages = <<>>
    /\ f_error = "none"
    /\ f_closed = FALSE

SpecParse == ParseInit /\ [][FetchNext]_vars

\* The list the iterations build is the list DecodeFetch computes.
FetchStepsAgree ==
    f_pc = "returned" =>
        f_messages = DecodeFetch(f_start_offset, f_include_corrupt, kafka_include_corrupt,
                                 f_data).messages

\* ------------------------------------------- calls of fetch and offsets
\* The calls a client makes one after the other, each followed through its
\* writes and reads on the connection: _write and _read are taken by their
\* contract (the data written whole, exactly the bytes asked for returned,
\* or an exception raised).
MaxCalls == 2

OFFSET == 8
OFFSET_COUNT == 4
RESPONSE_SIZE == 4

\* struct.pack('>Q', offset) for the offsets of the bodies below.
Pack64(n) == <<0, 0, 0, 0>> \o Pack32(n)

\* struct.unpack('>Q', raw_offset)[0]; the high word of every offset the
\* bodies below carry is 0.
Unpack64(raw) == Unpack32(SubSeq(raw, 5, 8))

\* The loop of _read_offset_response: count times read(8) and unpack;
\* struct.error on a field cut short.
RECURSIVE ReadOffsets(_, _, _)
ReadOffsets(data, pos, count) ==
    IF count = 0 THEN [error |-> "none", offsets |-> <<>>]
    ELSE LET raw_offset == Read(data, pos, OFFSET)
             rest == ReadOffsets(data, pos + OFFSET, count - 1)
         IN  IF Len(raw_offset) < OFFSET
             THEN [error |-> "struct.error", offsets |-> <<>>]
             ELSE IF rest.error # "none" THEN rest
             ELSE [error |-> "none", offsets |-> <<Unpack64(raw_offset)>> \o rest.offsets]

\* _read_offset_response on the buffer at position pos.
_read_offset_response(data, pos) ==
    LET raw_offset_count == Read(data, pos, OFFSET_COUNT)
    IN  IF Len(raw_offset_count) < OFFSET_COUNT
        THEN [error |-> "struct.error", offsets |-> <<>>]
        ELSE ReadOffsets(data, pos + OFFSET_COUNT, Unpack32(raw_offset_count))

\* The response bodies the server answers a call with.
CallBodies(kind) ==
    IF kind = "fetch"
    THEN {<<0, 0>>, <<0, 0>> \o EncodeMessage(<<97>>)} \cup ErrorBodies
    ELSE {<<0, 0>>, <<0, 0>> \o Pack32(1) \o Pack64(30)} \cup ErrorBodies

\* What a write or a read on the connection may raise.
CallFailures == {"ConnectionFailure", "IOError"}

CallOffsets == {None, 100}

\* One entry of the history of the calls.
Event(call, op, n) == [call |-> call, op |-> op, n |-> n]

CallsInit ==
    /\ kafka_include_corrupt = FALSE
    /\ arg_offset = None
    /\ end_offset = None
    /\ poll_interval = 0
    /\ include_corrupt = FALSE
    /\ retry_limit = None
    /\ PollCalled
    /\ NoFetchCall
    /\ NoCall
    /\ NoWrite
    /\ NoRead

\* fetch (lines 102-138) or offsets (lines 140-154) is called: the request is
\* encoded, which fails for an offset of None.
CallStart ==
    /\ c_pc \in {"idle", "returned", "raised"}
    /\ c_call < MaxCalls
    /\ \E kind \in {"fetch", "offsets"}, o \in CallOffsets, cb \in BOOLEAN :
         /\ c_kind' = kind
         /\ c_offset' = o
         /\ c_callback' = cb
         /\ IF kind = "fetch" /\ o = None
            THEN c_pc' = "raised" /\ c_error' = "struct.error"
            ELSE c_pc' = "write_size" /\ c_error' = "none"
    /\ c_call' = c_call + 1
    /\ c_raw_size' = <<>>
    /\ c_data' = <<>>
    /\ c_result' = <<>>
    /\ UNCHANGED <<kafka_include_corrupt, poll_vars, fetch_vars, write_vars, read_vars, c_trace>>

\* self._write(request_size, ...): the size prefix is written.
WriteSize ==
    /\ c_pc = "write_size"
    /\ \/ /\ c_trace' = Append(c_trace, Event(c_call, "write_size", 4))
          /\ c_pc' = "write_request"
          /\ UNCHANGED c_error
       \/ \E f \in CallFailures :
            /\ c_pc' = "raised"
            /\ c_error' = f
            /\ UNCHANGED c_trace
    /\ UNCHANGED <<kafka_include_corrupt, poll_vars, fetch_vars, write_vars, read_vars, c_kind, c_offset,
                   c_callback, c_call, c_raw_size, c_data, c_result>>

\* _wrote_request_size: the request itself is written.
WriteRequest ==
    /\ c_pc = "write_request"
    /\ \/ /\ c_trace' = Append(c_trace, Event(c_call, "write_request", 0))
          /\ c_pc' = "read_size"
          /\ UNCHANGED c_error
       \/ \E f \in CallFailures :
            /\ c_pc' = "raised"
            /\ c_error' = f
            /\ UNCHANGED c_trace
    /\ UNCHANGED <<kafka_include_corrupt, poll_vars, fetch_vars, write_vars, read_vars, c_kind, c_offset,
                   c_callback, c_call, c_raw_size, c_data, c_result>>

\* The read issued as soon as the size prefix is written.
MayRead_AfterSizePrefix(at) == at \in {"write_request", "read_size"}

\* The first read is issued by _wrote_request, the continuation of the write
\* of the request.
MayRead(at) == at = "read_size"

\* _wrote_request: self._read(Lengths.RESPONSE_SIZE, ...).
ReadSize ==
    /\ MayRead(c_pc)
    /\ \/ \E body \in CallBodies(c_kind) :
            /\ c_raw_size' = Pack32(Len(body))
            /\ c_trace' = Append(c_trace, Event(c_call, "read", RESPONSE_SIZE))
            /\ c_pc' = "read_body"
            /\ UNCHANGED c_error
       \/ \E f \in CallFailures :
            /\ c_pc' = "raised"
            /\ c_error' = f
            /\ UNCHANGED <<c_trace, c_raw_size>>
    /\ UNCHANGED <<kafka_include_corrupt, poll_vars, fetch_vars, write_vars, read_vars, c_kind, c_offset,
                   c_callback, c_call, c_data, c_result>>

\* _read_response_size: buf_length is unpacked and that many bytes are read.
ReadBody ==
    /\ c_pc = "read_body"
    /\ LET buf_length == Unpack32(c_raw_size)
       IN  \/ \E body \in CallBodies(c_kind) :
                /\ Len(body) = buf_length
                /\ c_data' = body
                /\ c_trace' = Append(c_trace, Event(c_call, "read", buf_length))
                /\ c_pc' = "response"
                /\ UNCHANGED c_error
           \/ \E f \in CallFailures :
                /\ c_pc' = "raised"
                /\ c_error' = f
                /\ UNCHANGED <<c_trace, c_data>>
    /\ UNCHANGED <<kafka_include_corrupt, poll_vars, fetch_vars, write_vars, read_vars, c_kind, c_offset,
                   c_callback, c_call, c_raw_size, c_result>>

\* The events of the decoding after the error code was found to be 0: the
\* decoder of the call's kind with the buffer at position pos, then the
\* caller's callback if the decoder got that far and there is one.
Decoded(call, pos, failed, callback) ==
    <<Event(call, "decode", pos)>>
      \o (IF ~failed /\ callback THEN <<Event(call, "callback", 0)>> ELSE <<>>)

\* _read_response (lines 376-384) with all it calls: the error code is read
\* and checked, then the buffer goes to _read_fetch_response or
\* _read_offset_response, which hands the list to the callback.
Respond ==
    /\ c_pc = "response"
    /\ LET checked == Append(c_trace, Event(c_call, "check", ERROR_CODE))
           offsets == _read_offset_response(c_data, ERROR_CODE)
       IN  IF _read_response(c_data) # "none"
           THEN /\ c_pc' = "raised"
                /\ c_error' = _read_response(c_data)
                /\ c_trace' = checked
                /\ UNCHANGED c_result
           ELSE IF c_kind = "fetch"
           THEN /\ c_pc' = "returned"
                /\ c_result' = _parse_message_set(c_offset, c_data, ERROR_CODE, FALSE,
                                                  kafka_include_corrupt)
                /\ c_trace' = checked \o Decoded(c_call, ERROR_CODE, FALSE, c_callback)
                /\ UNCHANGED c_error
           ELSE /\ c_pc' = IF offsets.error # "none" THEN "raised" ELSE "returned"
                /\ c_error' = offsets.error
                /\ c_result' = offsets.offsets
                /\ c_trace' = checked \o Decoded(c_call, ERROR_CODE, offsets.error # "none",
                                                 c_callback)
    /\ UNCHANGED <<kafka_include_corrupt, poll_vars, fetch_vars, write_vars, read_vars, c_kind, c_offset,
                   c_callback, c_call, c_raw_size, c_data>>

CallsNext ==
    \/ CallStart
    \/ WriteSize
    \/ WriteRequest
    \/ ReadSize
    \/ ReadBody
    \/ Respond

SpecCalls == CallsInit /\ [][CallsNext]_vars

\* ------------------------------------------------------------ Kafka._write
\* One call of Kafka._write (blocking.py, lines 69-96) with the calls it
\* makes to itself.
MaxLen == 3

MAX_RETRY == 3

\* The errors of the connection-reset class, and the errno values
\* socket.send is followed with.
ResetClass == {"ECONNRESET", "EPIPE", "ECONNABORTED"}

SendErrnos == ResetClass \cup {"ETIMEDOUT"}

\* What socket.send raises: an instance of the class socket.error.
SocketError(errno) == [kind |-> "class", name |-> "socket.error", errno |-> errno]

\* except (errno.ECONNRESET, errno.EPIPE, errno.ECONNABORTED): the entries
\* of the tuple are the integers of the errno module, no exception classes.
ExceptClause == {[kind |-> "int", name |-> e] : e \in ResetClass}

\* Python 2 matches a raised exception against an entry of an except clause
\* by class: an entry that is no class matches no exception.
Caught(exception, clause) ==
    \E entry \in clause : entry.kind = "class" /\ entry.name = exception.name

WriteInit ==
    /\ kafka_include_corrupt = FALSE
    /\ arg_offset = None
    /\ end_offset = None
    /\ poll_interval = 0
    /\ include_corrupt = FALSE
    /\ retry_limit = None
    /\ PollCalled
    /\ NoFetchCall
    /\ NoCall
    /\ NoRead
    /\ w_pc = "called"
    /\ w_socket \in {"none", "open"}
    /\ w_len \in 1..MaxLen
    /\ w_callback \in BOOLEAN
    /\ w_retries \in 0..MAX_RETRY
    /\ w_wrote = 0
    /\ w_error = "none"
    /\ w_sends = <<>>
    /\ w_reconnects = 0
    /\ w_continued = 0

\* Lines 72-82: the socket is connected if there is none, which may fail.
WriteEnter ==
    /\ w_pc = "called"
    /\ \/ /\ w_socket' = "open"
          /\ w_pc' = "sending"
          /\ w_wrote' = 0
          /\ UNCHANGED w_error
       \/ /\ w_socket = "none"
          /\ w_pc' = "raised"
          /\ w_error' = "ConnectionFailure"
          /\ UNCHANGED <<w_socket, w_wrote>>
    /\ UNCHANGED <<kafka_include_corrupt, poll_vars, fetch_vars, call_vars, read_vars, w_len, w_callback,
                   w_retries, w_sends, w_reconnects, w_continued>>

\* Lines 84-94: one socket.send(data) of the loop. It returns how many bytes
\* it sent, or raises; the except clause decides whether the handler runs:
\* _reconnect, then the call of _write with one retry less, or MaxRetries(),
\* a name blocking.py does not define.
Send ==
    /\ w_pc = "sending"
    /\ w_len > w_wrote
    /\ \/ \E n \in 1..w_len :
            /\ w_wrote' = w_wrote + n
            /\ w_sends' = Append(w_sends, [sent |-> n, errno |-> "none"])
            /\ UNCHANGED <<w_pc, w_socket, w_retries, w_error, w_reconnects>>
       \/ \E e \in SendErrnos, connected \in BOOLEAN :
            /\ w_sends' = Append(w_sends, [sent |-> 0, errno |-> e])
            /\ IF Caught(SocketError(e), ExceptClause)
               THEN /\ w_reconnects' = w_reconnects + 1
                    /\ w_socket' = IF connected THEN "open" ELSE "none"
                    /\ IF ~connected
                       THEN /\ w_pc' = "raised"
                            /\ w_error' = "ConnectionFailure"
                            /\ UNCHANGED w_retries
                       ELSE IF w_retries > 0
                       THEN /\ w_pc' = "called"
                            /\ w_retries' = w_retries - 1
                            /\ UNCHANGED w_error
                       ELSE /\ w_pc' = "raised"
                            /\ w_error' = "NameError"
                            /\ UNCHANGED w_retries
                    /\ UNCHANGED w_wrote
               ELSE /\ connected
                    /\ w_pc' = "raised"
                    /\ w_error' = "socket.error"
                    /\ UNCHANGED <<w_socket, w_retries, w_wrote, w_reconnects>>
    /\ UNCHANGED <<kafka_include_corrupt, poll_vars, fetch_vars, call_vars, read_vars, w_len, w_callback,
                   w_continued>>

\* Lines 95-96: the loop ended without exception, the continuation is called.
WriteDone ==
    /\ w_pc = "sending"
    /\ ~(w_len > w_wrote)
    /\ w_pc' = "returned"
    /\ w_continued' = w_continued + 1
    /\ UNCHANGED <<kafka_include_corrupt, poll_vars, fetch_vars, call_vars, read_vars, w_socket, w_len,
                   w_callback, w_retries, w_wrote, w_error, w_sends, w_reconnects>>

WriteNext ==
    \/ WriteEnter
    \/ Send
    \/ WriteDone

SpecWrite == WriteInit /\ [][WriteNext]_vars

\* ------------------------------------------------------------- Kafka._read
\* Calls of Kafka._read on one instance (blocking.py, lines 40-67), one after
\* the other, against a socket that hands out the server's stream in chunks.
MaxReads == 3
MaxRead == 3

\* The stream of the server: every byte is different, so that a byte lost,
\* repeated or out of place shows.
StreamLen == MaxReads * (2 * MaxRead - 1)

Stream == [i \in 1..StreamLen |-> i]

\* except errno.EAGAIN: the integer of the errno module, no exception class.
ReadExceptClause == {[kind |-> "int", name |-> "EAGAIN"]}

\* read_data[0:length] and read_data[length:]
SliceTo(data, length) == SubSeq(data, 1, IF length < Len(data) THEN length ELSE Len(data))

SliceFrom(data, length) == SubSeq(data, length + 1, Len(data))

\* output = self._overflow + read_data[0:length]
Output(overflow, read_data, length) == overflow \o SliceTo(read_data, length)

ReadInit ==
    /\ kafka_include_corrupt = FALSE
    /\ arg_offset = None
    /\ end_offset = None
    /\ poll_interval = 0
    /\ include_corrupt = FALSE
    /\ retry_limit = None
    /\ PollCalled
    /\ NoFetchCall
    /\ NoCall
    /\ NoWrite
    /\ NoRead

\* Lines 43-50: the socket is connected if there is none, which may fail;
\* read_length and read_data start empty.
ReadEnter ==
    /\ r_pc \in {"idle", "returned", "raised"}
    /\ r_calls < MaxReads
    /\ r_calls' = r_calls + 1
    /\ \E length \in 1..MaxRead :
         /\ r_length' = length
         /\ \/ /\ r_socket' = "open"
               /\ r_pc' = "recv"
               /\ r_error' = "none"
            \/ /\ r_socket = "none"
               /\ r_pc' = "raised"
               /\ r_error' = "ConnectionFailure"
               /\ UNCHANGED r_socket
    /\ r_read_length' = 0
    /\ r_read_data' = <<>>
    /\ UNCHANGED <<kafka_include_corrupt, poll_vars, fetch_vars, call_vars, write_vars,
                   r_overflow, r_total_read, r_received, r_returned, r_dropped>>

\* Lines 54-58: one pass of the loop. recv(length) hands out at most length
\* bytes, whatever has been read in this call so far.
Recv ==
    /\ r_pc = "recv"
    /\ r_read_length < r_length
    /\ \E n \in 1..r_length :
         /\ r_received + n <= StreamLen
         /\ LET chunk == SubSeq(Stream, r_received + 1, r_received + n)
            IN  /\ r_read_length' = r_read_length + Len(chunk)
                /\ r_read_data' = r_read_data \o chunk
                /\ r_total_read' = r_total_read + (r_read_length + Len(chunk))
         /\ r_received' = r_received + n
    /\ UNCHANGED <<kafka_include_corrupt, poll_vars, fetch_vars, call_vars, write_vars,
                   r_pc, r_socket, r_length, r_overflow, r_error, r_calls, r_returned,
                   r_dropped>>

\* recv raises socket.error (a timeout is EAGAIN): the except clause of line
\* 59 decides whether the handler runs, which calls self.disconnect(), a
\* method Kafka does not have. What this call has read is dropped with its
\* local variables.
RecvFail ==
    /\ r_pc = "recv"
    /\ r_read_length < r_length
    /\ r_pc' = "raised"
    /\ r_error' = IF Caught(SocketError("EAGAIN"), ReadExceptClause)
                  THEN "AttributeError" ELSE "socket.error"
    /\ r_dropped' = r_dropped + Len(r_read_data)
    /\ UNCHANGED <<kafka_include_corrupt, poll_vars, fetch_vars, call_vars, write_vars,
                   r_socket, r_length, r_read_length, r_read_data, r_overflow, r_total_read,
                   r_calls, r_received, r_returned>>

\* Lines 62-67: the loop has ended; the value goes to the callback, the
\* identity if none is given.
ReadReturn ==
    /\ r_pc = "recv"
    /\ r_read_length >= r_length
    /\ r_returned' = Append(r_returned, Output(r_overflow, r_read_data, r_length))
    /\ r_overflow' = SliceFrom(r_read_data, r_length)
    /\ r_pc' = "returned"
    /\ UNCHANGED <<kafka_include_corrupt, poll_vars, fetch_vars, call_vars, write_vars,
                   r_socket, r_length, r_read_length, r_read_data, r_total_read, r_error,
                   r_calls, r_received, r_dropped>>

ReadNext ==
    \/ ReadEnter
    \/ Recv
    \/ RecvFail
    \/ ReadReturn

SpecRead == ReadInit /\ [][ReadNext]_vars

\* ------------------------------------------------------------------ claims
\* C1: with end_offset = E set, no batch poll emits holds a message whose
\* offset is greater than E, whatever the server answers and whichever
\* fetches fail.
C1_NoMessagePastEnd ==
    end_offset # None =>
        \A k \in 1..Len(emitted) :
            \A i \in 1..Len(emitted[k].offsets) : emitted[k].offsets[i] <= end_offset

\* A batch was emitted from which the filter had dropped a message past E,
\* after a fetch that failed.
C1_Witness ==
    /\ end_offset # None
    /\ dropped > 0
    /\ fails > 0
    /\ emitted # <<>>
    /\ emitted[Len(emitted)].messages # <<>>

\* C2: poll with end_offset = E stops at E. No fetch is issued once the
\* cursor exceeds E; a start offset beyond E ends poll with no fetch and no
\* emission; and when a fetch returns the message located at offset E, that
\* message is emitted (the last batch yielded holds it).
C2_StopsAtEnd ==
    end_offset # None =>
        /\ \A i \in 1..Len(fetched_at) : fetched_at[i] <= end_offset
        /\ (arg_offset > end_offset => fetched_at = <<>> /\ emitted = <<>>)
        /\ (\E i \in 1..Len(msg_batch) : msg_batch[i][1] = end_offset) =>
              \/ pc = "process"
              \/ /\ emitted # <<>>
                 /\ \E i \in 1..Len(emitted[Len(emitted)].offsets) :
                       emitted[Len(emitted)].offsets[i] = end_offset

\* C3: when every fetch of poll(retry_limit = R) fails with a connection
\* failure, poll raises after exactly R retries: R + 1 attempts in all, and
\* one sleep of poll_interval before each of the R retries.
C3_ExactlyRRetries ==
    (/\ pc = "raised"
     /\ error = "ConnectionFailure"
     /\ raised_at = "fetch"
     /\ fetch_ok = 0
     /\ retry_limit # None) =>
        /\ fails = retry_limit + 1
        /\ slept = retry_limit * poll_interval

\* C4: the retry budget bounds consecutive failures only: when no run of
\* consecutive failed fetches is longer than retry_limit, no fetch of poll
\* raises a connection failure.
C4_OnlyConsecutiveFailuresCount ==
    (/\ pc = "raised"
     /\ error = "ConnectionFailure"
     /\ raised_at \in {"fetch", "validate_fetch"}) =>
        /\ retry_limit # None
        /\ max_fail_run > retry_limit

\* C5: the first fetch is issued at the start offset, which is the given
\* offset or, when none is given, the value latest_offset() returned; every
\* status reports that start_offset, and next_offset equals it until a
\* message is read.
C5_FirstFetchAtStart ==
    /\ (pc # "called" /\ arg_offset # None) => start_offset = arg_offset
    /\ fetched_at # <<>> => fetched_at[1] = start_offset
    /\ \A k \in 1..Len(emitted) :
          /\ emitted[k].status.start_offset = start_offset
          /\ emitted[k].status.messages_read = 0 =>
                emitted[k].status.next_offset = start_offset

\* The states in which an empty first batch has passed the validation.
C6_PassedValidation(lower_ok) ==
    \/ ~lower_ok
    \/ lower_ok /\ latest # None /\ latest <= offset
    \/ lower_ok /\ offset < latest /\ recheck = "messages"

\* The state part of C6, with the lower bound of the range as given.
C6_Raise(lower_ok) ==
    /\ error = "InvalidOffset" =>
          /\ pc = "raised" /\ raised_at = "validate_fetch"
          /\ first_loop /\ emitted = <<>> /\ msg_batch = <<>>
          /\ lower_ok /\ offset < latest
          /\ recheck = "empty"
    /\ (pc = "process" /\ first_loop /\ msg_batch = <<>>) => C6_PassedValidation(lower_ok)
    /\ raised_at \in {"validate_earliest", "validate_latest", "validate_fetch"} =>
          /\ pc = "raised" /\ first_loop /\ emitted = <<>> /\ msg_batch = <<>>
          /\ error # "InvalidOffset" =>
                error \in LookupFailures \cup {_read_response(data) : data \in PollErrorBodies}

\* After the first cycle a fetch that returns goes on to the processing,
\* whatever it returned.
C6_LaterCycles ==
    (pc = "loop" /\ ~first_loop /\ fetch_ok' = fetch_ok + 1 /\ ~UnpackFails(msg_batch'))
        => pc' = "process"

\* C6: poll raises InvalidOffset only in its first fetch cycle, and there
\* exactly when the batch is empty, earliest_offset() <= offset <
\* latest_offset() and the repeated fetch at the same offset returns nothing.
\* In every other case an empty batch raises no InvalidOffset and goes on to
\* be emitted; the only other errors the validation raises are those of its
\* own lookups and of its repeated fetch. On every later iteration an empty
\* batch is emitted without validation.
C6_InvalidOffsetOnlyOnFirstCycle ==
    /\ [](C6_Raise(earliest <= offset))
    /\ [][C6_LaterCycles]_vars

\* InvalidOffset was raised for an offset equal to earliest_offset().
C6_Witness ==
    /\ pc = "raised" /\ error = "InvalidOffset"
    /\ earliest = offset /\ offset < latest /\ recheck = "empty"

\* C6 as stated: the range is earliest < offset < latest, strictly.
C6_StrictlyBetween == C6_Raise(earliest < offset)

\* The last batch among the first k emitted that holds a message, 0 if none.
RECURSIVE LastNonEmpty(_)
LastNonEmpty(k) ==
    IF k = 0 THEN 0
    ELSE IF emitted[k].messages # <<>> THEN k ELSE LastNonEmpty(k - 1)

\* C7: in every status emitted, start_offset is the same; once a message has
\* been emitted, last_offset_read is the offset of the last emitted message
\* and next_offset = last_offset_read + its payload length + 9; an empty
\* batch leaves next_offset and last_offset_read as they were; next_offset
\* never decreases from one status to the next.
C7_NextOffset ==
    \A k \in 1..Len(emitted) :
        LET st == emitted[k].status
            j == LastNonEmpty(k)
        IN  /\ st.start_offset = start_offset
            /\ j > 0 =>
                  /\ st.last_offset_read = emitted[j].offsets[Len(emitted[j].offsets)]
                  /\ st.next_offset = st.last_offset_read
                                        + Len(emitted[j].messages[Len(emitted[j].messages)]) + 9
            /\ (emitted[k].messages = <<>> /\ k > 1) =>
                  /\ st.next_offset = emitted[k - 1].status.next_offset
                  /\ st.last_offset_read = emitted[k - 1].status.last_offset_read
            /\ (emitted[k].messages = <<>> /\ k = 1) =>
                  /\ st.next_offset = arg_offset
                  /\ st.last_offset_read = None
            /\ k > 1 => st.next_offset >= emitted[k - 1].status.next_offset
            /\ k = Len(emitted) =>
                  /\ offset = st.next_offset
                  /\ last_offset_read = st.last_offset_read

\* A batch with a message was emitted and then an empty one.
C7_Witness ==
    /\ Len(emitted) = 2
    /\ emitted[1].messages # <<>>
    /\ emitted[2].messages = <<>>
    /\ emitted[2].status.next_offset > start_offset

\* Emissions and completed fetch cycles, counted.
C8_Counts ==
    /\ pc \in {"loop", "yielded", "done"} => Len(emitted) = fetch_ok
    /\ pc \in {"validate_earliest", "validate_latest", "validate_fetch", "process"} =>
          fetch_ok = Len(emitted) + 1
    /\ pc = "raised" => fetch_ok - Len(emitted) \in {0, 1}
    /\ \A k \in 1..Len(emitted) :
          /\ emitted[k].status.num_fetches = k
          /\ Len(emitted[k].messages) = Len(emitted[k].offsets)

\* The steps of a cycle: the emission follows the fetch that returned, the
\* idle sleep follows the emission, a failed fetch emits nothing.
C8_Steps ==
    /\ emitted' # emitted =>
          /\ pc = "process" /\ pc' = "yielded"
          /\ Len(emitted') = Len(emitted) + 1
          /\ emitted'[Len(emitted')].messages = [i \in 1..Len(msg_batch) |-> msg_batch[i][2]]
    /\ seconds_slept' # seconds_slept =>
          pc = "yielded" /\ Len(emitted) = fetch_ok /\ emitted' = emitted
    /\ fails' # fails => emitted' = emitted
    /\ (pc = "process" /\ ~UnpackFails(msg_batch)) => Len(emitted') = Len(emitted) + 1

\* C8: every fetch cycle that completes without error produces exactly one
\* emission (status, payloads), also for an empty batch; the emission comes
\* before the idle sleep of the cycle; a failed fetch that is retried
\* produces none.
C8_OneEmissionPerCycle ==
    /\ []C8_Counts
    /\ [][C8_Steps]_vars

\* An empty batch was emitted after a failed fetch, and the idle sleep taken.
C8_Witness ==
    /\ pc = "loop"
    /\ emitted # <<>> /\ emitted[Len(emitted)].messages = <<>>
    /\ seconds_slept > 0
    /\ fails > 0

\* C9: after an emission poll sleeps iff poll_interval is truthy and the
\* batch emitted was empty, and the seconds_slept of each status is the
\* total time poll has slept before that emission.
C9_SecondsSlept ==
    /\ \A k \in 1..Len(emitted) : emitted[k].status.seconds_slept = emitted[k].slept
    /\ (pc = "loop" /\ emitted # <<>>) =>
          seconds_slept - emitted[Len(emitted)].status.seconds_slept =
              (IF poll_interval # 0 /\ emitted[Len(emitted)].messages = <<>>
               THEN poll_interval ELSE 0)

\* Whether the message a returned record was parsed from fails a check: the
\* magic byte and the stored checksum stand in the response right after the
\* length field of the record's header.
C10_FailsACheck(rec) ==
    LET pos == rec[1] - f_start_offset + ERROR_CODE
    IN  \/ f_data[pos + MESSAGE_LENGTH + 1] # 0
        \/ SubSeq(f_data, pos + MESSAGE_LENGTH + MAGIC + 1,
                  pos + MESSAGE_LENGTH + MAGIC + CHECKSUM) # compute_checksum(rec[2])

\* C10: with include_corrupt false the list fetch returns holds no message
\* whose magic byte is not 0 or whose stored checksum is not the CRC32 of its
\* payload; with include_corrupt true every record carries the flag, true
\* for such a message and false for a message that passes both checks.
C10_CorruptDropped ==
    f_pc = "returned" =>
        \A i \in 1..Len(f_messages) :
            IF f_include_corrupt
            THEN Len(f_messages[i]) = 3 /\ f_messages[i][3] = C10_FailsACheck(f_messages[i])
            ELSE ~C10_FailsACheck(f_messages[i])

\* The position in the response right after the last record returned.
ParsedEnd ==
    IF f_messages = <<>> THEN ERROR_CODE
    ELSE LET rec == f_messages[Len(f_messages)]
         IN  rec[1] - f_start_offset + ERROR_CODE + MESSAGE_HEADER_SIZE + Len(rec[2])

\* The payload length the header of a returned record declares.
DeclaredPayloadLength(rec) ==
    LET pos == rec[1] - f_start_offset + ERROR_CODE
    IN  Unpack32(SubSeq(f_data, pos + 1, pos + MESSAGE_LENGTH)) - MAGIC - CHECKSUM

\* C11: the include_corrupt argument of the fetch call decides about a
\* payload cut off by the end of the buffer, whatever the client was
\* constructed with: with include_corrupt false no record with a short
\* payload is returned; with include_corrupt true the short payload is
\* returned as a record, so no message with a complete header is left unread.
C11_ShortPayloadPolicyOfTheCall ==
    f_pc = "returned" =>
        IF f_include_corrupt
        THEN Len(f_data) - ParsedEnd < MESSAGE_HEADER_SIZE
        ELSE \A i \in 1..Len(f_messages) :
                Len(f_messages[i][2]) = DeclaredPayloadLength(f_messages[i])

\* The position in the response at which the header of a record starts.
HeaderStart(rec) == rec[1] - f_start_offset + ERROR_CODE

\* The records returned so far are the messages of the buffer from its start
\* on, one after the other, each with the payload bytes the buffer holds.
C12_RecordsFollowTheBuffer ==
    \A i \in 1..Len(f_messages) :
        LET rec == f_messages[i]
            pos == HeaderStart(rec)
        IN  /\ pos = (IF i = 1 THEN ERROR_CODE
                      ELSE HeaderStart(f_messages[i - 1]) + MESSAGE_HEADER_SIZE
                             + Len(f_messages[i - 1][2]))
            /\ pos + MESSAGE_HEADER_SIZE + Len(rec[2]) <= Len(f_data)
            /\ rec[2] = SubSeq(f_data, pos + MESSAGE_HEADER_SIZE + 1,
                               pos + MESSAGE_HEADER_SIZE + Len(rec[2]))
            /\ (i < Len(f_messages) \/ ~kafka_include_corrupt) =>
                  Len(rec[2]) = DeclaredPayloadLength(rec)

\* What is left of the buffer when the parser ends: nothing, a cut header,
\* or a message whose payload is cut off.
C12_StoppedAtTheCut ==
    LET rest == Len(f_data) - ParsedEnd
    IN  \/ rest < MESSAGE_HEADER_SIZE
        \/ /\ ~kafka_include_corrupt
           /\ rest - MESSAGE_HEADER_SIZE
                < Unpack32(SubSeq(f_data, ParsedEnd + 1, ParsedEnd + MESSAGE_LENGTH))
                    - MAGIC - CHECKSUM

\* The state part of C12.
C12_State ==
    /\ f_pc = "raised" => _read_response(f_data) # "none" /\ f_messages = <<>>
    /\ f_pc \in {"parsing", "returned"} => f_error = "none" /\ C12_RecordsFollowTheBuffer
    /\ f_pc = "returned" =>
          /\ C12_StoppedAtTheCut
          /\ Len(f_data) = ERROR_CODE => f_messages = <<>>

\* A record once yielded stays in the list fetch builds.
C12_RecordsKept ==
    /\ Len(f_messages') >= Len(f_messages)
    /\ \A i \in 1..Len(f_messages) : f_messages'[i] = f_messages[i]

Payloads == {<<97>>, <<98, 99>>}

PayloadLists == UNION {[1..n -> Payloads] : n \in 0..MaxMsgs}

\* C13: a fetch at offset S answered with N well-formed messages one after
\* the other returns N records; the first offset is S, the offsets increase
\* strictly, and offset[i+1] = offset[i] + payload length[i] + 9.
C13_OffsetsOfWellFormedMessages ==
    \A p \in PayloadLists :
        (f_pc = "returned" /\ f_data = <<0, 0>> \o EncodeMessageSet(p)) =>
            /\ Len(f_messages) = Len(p)
            /\ p # <<>> => f_messages[1][1] = f_start_offset
            /\ \A i \in 1..(Len(p) - 1) :
                  /\ f_messages[i + 1][1] = f_messages[i][1] + Len(p[i]) + 9
                  /\ f_messages[i + 1][1] > f_messages[i][1]

\* Two well-formed messages were parsed from a fetch at offset 100.
C13_Witness ==
    /\ f_pc = "returned"
    /\ f_start_offset = 100
    /\ f_data = <<0, 0>> \o EncodeMessageSet(<<<<98, 99>>, <<97>>>>)
    /\ Len(f_messages) = 2

\* The record the parser owes for the i-th payload of the encoded list p.
RoundTripRecord(p, i, corrupt) ==
    LET before == EncodeMessageSet(SubSeq(p, 1, i - 1))
    IN  YieldRecord(f_include_corrupt, f_start_offset + Len(before), p[i], corrupt)

\* The encoded list p with the payload of its i-th message replaced by q, the
\* stored checksum left as it was.
ChangedPayload(p, i, q) ==
    Concat([k \in 1..Len(p) |->
              IF k = i THEN WireMessage(MAGIC_BYTE, compute_checksum(p[k]), q)
              ELSE EncodeMessage(p[k])])

\* C14: the message set the produce encoder builds (per message the length
\* 5 + payload length, the magic byte 0, the CRC32 of the payload, the
\* payload) is parsed back to the original payloads in order, each flagged
\* corrupt = false, the offsets spaced by payload length + 9; a payload
\* changed under an unchanged checksum is flagged corrupt = true.
C14_RoundTrip ==
    /\ \A m \in Payloads :
          EncodeMessage(m) = Pack32(5 + Len(m)) \o <<0>> \o compute_checksum(m) \o m
    /\ \A p \in PayloadLists :
          (f_pc = "returned" /\ f_data = <<0, 0>> \o EncodeMessageSet(p)) =>
              f_messages = [i \in 1..Len(p) |-> RoundTripRecord(p, i, FALSE)]
    /\ \A p \in PayloadLists : \A i \in 1..Len(p) : \A q \in Payloads \ {p[i]} :
          (/\ f_pc = "returned"
           /\ f_include_corrupt
           /\ f_data = <<0, 0>> \o ChangedPayload(p, i, q)) =>
              /\ Len(f_messages) = Len(p)
              /\ f_messages[i][3] = TRUE
              /\ \A k \in 1..Len(p) : k # i => f_messages[k][3] = FALSE

\* An encoded list of two payloads was parsed back with the flags.
C14_Witness ==
    /\ f_pc = "returned"
    /\ f_include_corrupt
    /\ f_data = <<0, 0>> \o EncodeMessageSet(<<<<97>>, <<98, 99>>>>)
    /\ f_messages = <<<<f_start_offset, <<97>>, FALSE>>,
                      <<f_start_offset + 10, <<98, 99>>, FALSE>>>>

\* A payload changed under the checksum of another was parsed and flagged.
C14_Changed ==
    /\ f_pc = "returned"
    /\ f_include_corrupt
    /\ f_data = <<0, 0>> \o ChangedPayload(<<<<97>>>>, 1, <<98, 99>>)
    /\ f_messages = <<<<f_start_offset, <<98, 99>>, TRUE>>>>

\* What the k-th call left in the history.
CallEvents(k) == SelectSeq(c_trace, LAMBDA e : e.call = k)

\* The operations on the connection, in the order of the protocol.
ProtocolOps == <<"write_size", "write_request", "read", "read">>

\* The history of one call: the operations of the protocol in order, as far
\* as the call got, then the check of the error code, then the decoder, then
\* the callback.
C15_OneCall(ev) ==
    /\ \A i \in 1..Len(ev) :
          IF i <= 4 THEN ev[i].op = ProtocolOps[i]
          ELSE IF i = 5 THEN ev[i].op = "check"
          ELSE IF i = 6 THEN ev[i].op = "decode"
          ELSE i = 7 /\ ev[i].op = "callback"
    /\ Len(ev) >= 3 => ev[3].n = 4

\* The state part of C15.
C15_State ==
    /\ \A i \in 1..(Len(c_trace) - 1) : c_trace[i].call <= c_trace[i + 1].call
    /\ \A k \in 1..c_call : C15_OneCall(CallEvents(k))
    /\ c_pc \in {"response", "returned"} => Len(CallEvents(c_call)) >= 4
    /\ c_pc = "returned" => Len(CallEvents(c_call)) >= 6
    /\ (c_pc \in {"response", "returned"} \/ c_data # <<>>) =>
          /\ CallEvents(c_call)[4].n = Unpack32(c_raw_size)
          /\ Len(c_data) = Unpack32(c_raw_size)

\* The step part of C15: what is in the history stays, every new entry
\* belongs to the call that is running, and a call starts only when the one
\* before has returned or raised.
C15_Steps ==
    /\ Len(c_trace') >= Len(c_trace)
    /\ \A i \in 1..Len(c_trace) : c_trace'[i] = c_trace[i]
    /\ \A i \in (Len(c_trace) + 1)..Len(c_trace') : c_trace'[i].call = c_call
    /\ c_call' # c_call =>
          /\ c_pc \in {"idle", "returned", "raised"}
          /\ c_trace' = c_trace

\* C15: every fetch and offsets call writes the size prefix, writes the
\* request, reads 4 bytes and reads as many bytes as these 4 say, in this
\* order and as far as it gets before an exception; the decoder runs after
\* the check of the error code; the operations of a call are over before the
\* next call starts.
C15_ProtocolOrder ==
    /\ []C15_State
    /\ [][C15_Steps]_vars

\* Two calls, a fetch and an offsets lookup, have run to their end one after
\* the other.
C15_Witness ==
    /\ c_call = 2
    /\ c_pc = "returned"
    /\ c_kind = "offsets"
    /\ c_result = <<30>>
    /\ Len(CallEvents(1)) = 7
    /\ Len(CallEvents(2)) = 6

\* The error code of the response body of the running call.
EnvelopeCode == c_data[1] * 256 + c_data[2]

\* C16: an error code of 0 passes the body, positioned right after the two
\* bytes of the code, to the decoder of the call's kind; any other code fails
\* the call with the error of the table (1 OffsetOutOfRange, 2
\* InvalidMessageCode, 3 WrongPartitionCode, 4 the invalid-fetch-size error,
\* which the code names InvalidRetchSizeCode, else UnknownError) and neither
\* the decoder nor the callback is invoked.
C16_EnvelopeDecoding ==
    LET ev == CallEvents(c_call)
    IN  (Len(ev) >= 5 /\ ev[5].op = "check") =>
            IF EnvelopeCode = 0
            THEN /\ Len(ev) >= 6
                 /\ ev[6] = Event(c_call, "decode", 2)
                 /\ c_error \in {"none", "struct.error"}
                 /\ c_kind = "fetch" =>
                       /\ c_pc = "returned"
                       /\ c_result = _parse_message_set(c_offset, c_data, 2, FALSE,
                                                        kafka_include_corrupt)
            ELSE /\ c_pc = "raised"
                 /\ c_error = (CASE EnvelopeCode = 1 -> "OffsetOutOfRange"
                                 [] EnvelopeCode = 2 -> "InvalidMessageCode"
                                 [] EnvelopeCode = 3 -> "WrongPartitionCode"
                                 [] EnvelopeCode = 4 -> "InvalidRetchSizeCode"
                                 [] OTHER -> "UnknownError")
                 /\ Len(ev) = 5
                 /\ c_result = <<>>

\* A call with a callback was answered with error code 4 and raised.
C16_Witness ==
    /\ c_pc = "raised"
    /\ c_callback
    /\ c_data = <<0, 4>>
    /\ c_error = "InvalidRetchSizeCode"
    /\ Len(CallEvents(c_call)) = 5

\* How many calls of socket.send raised.
FailedSends == Len(SelectSeq(w_sends, LAMBDA r : r.errno # "none"))

\* The retries the caller of _write allowed: those left and those used up.
RetriesGiven == w_retries + w_reconnects

\* C17: a write that fails with an error of the connection-reset class is
\* retried, after a reconnect, as often as the retry budget allows (MAX_RETRY
\* = 3 by default); only when the first attempt and every retry have failed
\* does _write raise, without invoking the continuation; a write that
\* succeeds invokes the continuation once.
C17_WriteRetries ==
    /\ w_pc = "returned" => w_continued = 1
    /\ (/\ w_pc = "raised"
        /\ w_sends # <<>>
        /\ w_sends[Len(w_sends)].errno \in ResetClass
        /\ w_error # "ConnectionFailure") =>
          /\ w_retries = 0
          /\ FailedSends = RetriesGiven + 1
          /\ w_reconnects >= RetriesGiven
          /\ w_continued = 0

\* The lookups made by the step the model takes now.
NewLookups == SubSeq(lookup_calls', Len(lookup_calls) + 1, Len(lookup_calls'))

\* The step in which a fetch of the loop is answered with OffsetOutOfRange:
\* the other error codes of a response are raised under their own names.
C18_OutOfRangeStep ==
    /\ raised_at = "none"
    /\ raised_at' = "fetch_error"
    /\ error' \in {"OffsetOutOfRange"} \cup LookupFailures

C18_Handled ==
    /\ pc = "loop" /\ pc' = "raised"
    /\ fetched_at' = Append(fetched_at, offset)
    /\ emitted' = emitted
    /\ retry_attempts' = retry_attempts
    /\ slept' = slept
    /\ offset' = offset
    /\ counters' = counters
    /\ Len(NewLookups) >= 1
    /\ NewLookups[1].which = "earliest"
    /\ IF error' = "OffsetOutOfRange"
       THEN /\ Len(NewLookups) = 2
            /\ NewLookups[2].which = "latest"
            /\ NewLookups[1].error = "none" /\ NewLookups[2].error = "none"
            /\ earliest' = NewLookups[1].value
            /\ latest' = NewLookups[2].value
       ELSE /\ Len(NewLookups) \in {1, 2}
            /\ \A i \in 1..(Len(NewLookups) - 1) : NewLookups[i].error = "none"
            /\ Len(NewLookups) = 2 => NewLookups[2].which = "latest"
            /\ NewLookups[Len(NewLookups)].error = error'
            /\ error' \in LookupFailures

OtherErrorKinds ==
    {error_codes(error_code) : error_code \in 2..5}

\* Where a call of the polling loop can raise a connection failure.
C19_LoopCalls(places) ==
    (/\ pc = "raised"
     /\ error \in CallFailures
     /\ raised_at \in places) =>
        /\ retry_limit # None
        /\ retry_attempts >= retry_limit

\* An error of another kind ends poll in the step of the fetch that was
\* answered with it, without a retry and without a sleep.
C19_OtherKindsPropagate ==
    (error = "none" /\ error' \in OtherErrorKinds) =>
        /\ pc' = "raised"
        /\ Len(fetched_at') = Len(fetched_at) + 1
        /\ retry_attempts' = retry_attempts
        /\ slept' = slept

\* C19: a connection failure of a call of the polling loop, whether of the
\* fetch of the loop, of a lookup of the first-iteration validation or of the
\* validation's repeated fetch, reaches the consumer only when the retry
\* budget is used up; an error of another kind is raised at once.
C19_LoopFailuresRetried ==
    /\ [] C19_LoopCalls({"fetch", "validate_earliest", "validate_latest", "validate_fetch"})
    /\ [][C19_OtherKindsPropagate]_vars

\* The step that processes a fetched batch emits it: the payloads of its
\* records, the counters moved on, the cursor past a batch that is not empty.
C20_BatchEmitted ==
    pc = "process" =>
        /\ pc' = "yielded"
        /\ Len(emitted') = Len(emitted) + 1
        /\ emitted'[Len(emitted')].messages = [i \in 1..Len(msg_batch) |-> msg_batch[i][2]]
        /\ messages' = emitted'[Len(emitted')].messages
        /\ messages_read' = messages_read + Len(msg_batch)
        /\ num_fetches' = num_fetches + 1
        /\ msg_batch # <<>> => offset' > offset

\* C20: whatever include_corrupt is, a fetch cycle that succeeds ends in an
\* emission of the status and the payloads of the batch, with the counters
\* updated and the cursor advanced; poll never fails on the records of a
\* batch.
C20_EmitsWhateverIncludeCorrupt ==
    /\ [](error # "ValueError")
    /\ [][C20_BatchEmitted]_vars

\* A call that returns yields exactly as many bytes as it was asked for.
C21_ExactLength ==
    r_returned' # r_returned =>
        /\ Len(r_returned') = Len(r_returned) + 1
        /\ Len(r_returned'[Len(r_returned')]) = r_length

\* While no call has raised with bytes in hand, the values returned are the
\* stream in order, and with the overflow and what the running call has read
\* they are everything the socket has handed out.
C21_InOrder ==
    r_dropped = 0 =>
        /\ Concat(r_returned) = SubSeq(Stream, 1, Len(Concat(r_returned)))
        /\ Concat(r_returned) \o r_overflow
              \o (IF r_pc = "recv" THEN r_read_data ELSE <<>>)
                 = SubSeq(Stream, 1, r_received)

\* C21: however the socket cuts the stream into chunks, every call of
\* _read(n) that returns yields exactly n bytes, and the values returned by
\* the calls, one after the other, are the start of the stream received: no
\* byte lost, repeated or out of place, the bytes past n kept in the overflow
\* for the next read.
C21_ReadsExactlyInOrder ==
    /\ []C21_InOrder
    /\ [][C21_ExactLength]_vars

\* The parser has consumed a whole header for every record it has yielded,
\* never reads past the end of the buffer, and the buffer is closed exactly
\* when the sequence is exhausted.
C22_Bounded ==
    /\ f_pos <= Len(f_data)
    /\ f_pc \in {"parsing", "returned"} =>
          Len(f_messages) * MESSAGE_HEADER_SIZE <= f_pos - ERROR_CODE
    /\ f_closed <=> f_pc = "returned"

\* What is left of the buffer: the measure of the parser's loop.
C22_Left == Len(f_data) - f_pos

\* An iteration yields at most one record; one that yields leaves less of
\* the buffer, by the header of its record at least, and one that does not
\* yield ends the sequence; nothing follows the end of the sequence.
C22_Progress ==
    /\ f_pc # "returned"
    /\ f_pc = "parsing" =>
          /\ Len(f_messages') \in {Len(f_messages), Len(f_messages) + 1}
          /\ Len(f_messages') = Len(f_messages) + 1 =>
                /\ f_pc' = "parsing"
                /\ C22_Left' <= C22_Left - MESSAGE_HEADER_SIZE
                /\ C22_Left' >= 0
          /\ Len(f_messages') = Len(f_messages) =>
                /\ f_pc' = "returned"
                /\ f_closed'

\* C22: on every finite buffer, whatever its bytes, a declared length below
\* 5 or beyond the end of the buffer included, the parser ends after finitely
\* many records, at most one for each header it consumed, and the buffer is
\* closed when the sequence is exhausted. The loop has a measure: what is
\* left of the buffer is never negative and every iteration either takes at
\* least a header off it or ends the sequence.
C22_ParserTerminates ==
    /\ []C22_Bounded
    /\ [][C22_Progress]_vars

\* The parser has ended after a record whose header declared a length below
\* 5: its payload is all that was left of the buffer.
C22_Witness ==
    /\ f_pc = "returned"
    /\ f_closed
    /\ Len(f_messages) = 1
    /\ DeclaredPayloadLength(f_messages[1]) < 0
    /\ Len(f_messages[1][2]) > MESSAGE_HEADER_SIZE
    /\ f_pos = Len(f_data)

\* The step of a fetch of the loop that fails and is retried.
C23_Retried ==
    /\ pc = "loop" /\ pc' = "loop"
    /\ fails' = fails + 1

\* The retry counts one more attempt, after a sleep of poll_interval, and
\* leaves the cursor, the counters, the flag of the first iteration and what
\* has been emitted as they were.
C23_Frame ==
    /\ retry_attempts' = retry_attempts + 1
    /\ slept' = slept + poll_interval
    /\ offset' = offset
    /\ start_offset' = start_offset
    /\ messages_read' = messages_read
    /\ bytes_read' = bytes_read
    /\ num_fetches' = num_fetches
    /\ last_offset_read' = last_offset_read
    /\ seconds_slept' = seconds_slept
    /\ first_loop' = first_loop
    /\ msg_batch' = msg_batch
    /\ emitted' = emitted

\* The fetch that follows a failed one is issued at the same offset.
C23_SameOffset ==
    (pc = "loop" /\ fail_run > 0 /\ fetched_at' # fetched_at) =>
        /\ Len(fetched_at') = Len(fetched_at) + 1
        /\ fetched_at'[Len(fetched_at')] = fetched_at[Len(fetched_at)]

\* The first fetch that returns, after however many retries, is validated
\* when its batch is empty.
C23_StillValidated ==
    (pc = "loop" /\ fetch_ok = 0 /\ fetch_ok' = 1 /\ msg_batch' = <<>> /\ pc' # "raised") =>
        /\ first_loop
        /\ pc' = "validate_earliest"

RECURSIVE C24_BytesIn(_, _)
C24_BytesIn(batch, n) ==
    IF n = 0 THEN 0 ELSE C24_BytesIn(batch, n - 1) + Len(batch[n])

\* The payloads, and their bytes, of the first k batches emitted.
RECURSIVE C24_PayloadsUpTo(_)
C24_PayloadsUpTo(k) ==
    IF k = 0 THEN 0 ELSE C24_PayloadsUpTo(k - 1) + Len(emitted[k].messages)

RECURSIVE C24_BytesUpTo(_)
C24_BytesUpTo(k) ==
    IF k = 0 THEN 0
    ELSE C24_BytesUpTo(k - 1) + C24_BytesIn(emitted[k].messages, Len(emitted[k].messages))

\* The counters of the statuses emitted.
C24_Statuses ==
    \A k \in 1..Len(emitted) :
        /\ emitted[k].status.num_fetches = k
        /\ emitted[k].status.messages_read = C24_PayloadsUpTo(k)
        /\ emitted[k].status.bytes_read = C24_BytesUpTo(k)
        /\ k > 1 =>
              /\ emitted[k].status.messages_read >= emitted[k - 1].status.messages_read
              /\ emitted[k].status.bytes_read >= emitted[k - 1].status.bytes_read
              /\ emitted[k].status.num_fetches > emitted[k - 1].status.num_fetches

\* No step lowers a counter or touches a status already emitted.
C24_Kept ==
    /\ messages_read' >= messages_read
    /\ bytes_read' >= bytes_read
    /\ num_fetches' >= num_fetches
    /\ Len(emitted') >= Len(emitted)
    /\ \A k \in 1..Len(emitted) : emitted'[k] = emitted[k]

RECURSIVE C25_Offsets(_)
C25_Offsets(k) == IF k = 0 THEN <<>> ELSE C25_Offsets(k - 1) \o emitted[k].offsets

RECURSIVE C25_Payloads(_)
C25_Payloads(k) == IF k = 0 THEN <<>> ELSE C25_Payloads(k - 1) \o emitted[k].messages

\* Where the header of the message after the first n emitted ones starts in
\* a log that begins at the start offset.
C25_HeaderAfter(offsets, payloads, n) ==
    IF n = 0 THEN start_offset
    ELSE offsets[n] + MESSAGE_HEADER_SIZE + Len(payloads[n])

\* The payloads of the messages of the log, whole.
C25_LogPayloads ==
    {SubSeq(m, MESSAGE_HEADER_SIZE + 1, Len(m)) : m \in PollWireMessages}

\* The messages emitted are the messages of the log from the start offset on,
\* one after the other and whole, and every status points at the header of
\* the next.
C25_Contiguous ==
    LET offsets == C25_Offsets(Len(emitted))
        payloads == C25_Payloads(Len(emitted))
    IN  /\ \A n \in 1..Len(offsets) :
              /\ offsets[n] = C25_HeaderAfter(offsets, payloads, n - 1)
              /\ payloads[n] \in C25_LogPayloads
              /\ n > 1 => offsets[n] > offsets[n - 1]
        /\ \A k \in 1..Len(emitted) :
              emitted[k].status.next_offset =
                  C25_HeaderAfter(offsets, payloads, Len(C25_Offsets(k)))

\* Every fetch is issued at the start offset or, after an emission, at the
\* next_offset of the last status.
C25_FetchedAtTheCursor ==
    fetched_at' # fetched_at =>
        fetched_at' = Append(fetched_at,
                             IF emitted = <<>> THEN start_offset
                             ELSE emitted[Len(emitted)].status.next_offset)

\* C25: with corruption inclusion disabled and a server that answers a fetch
\* at an offset with the messages of the log from that offset on, every
\* fetch of poll, the validation's fetch included, is issued at the start
\* offset or at the next_offset of the previous status, which is the header
\* start of the message after the last emitted one; so the offsets of the
\* messages emitted increase strictly and no message of the log from the
\* start offset on is skipped or emitted twice.
C25_NoMessageSkippedOrRepeated ==
    /\ []((~include_corrupt /\ ~kafka_include_corrupt) => C25_Contiguous)
    /\ [][(~include_corrupt /\ ~kafka_include_corrupt) => C25_FetchedAtTheCursor]_vars
====
